---- MODULE Spec2Model ----
(***************************************************************************)
(* ForexRSIBot (src/main.py): the candle-close aligned monitoring loop,    *)
(* the alert deduplicator with its cooldown, the daily request quota and   *)
(* the sleep/wake duty cycle.                                              *)
(*                                                                         *)
(* Time is the integer number of seconds since 00:00 UTC of day 0.  RSI    *)
(* values are integers in hundredths (round(rsi, 2) * 100).                *)
(***************************************************************************)
EXTENDS Integers, Sequences, FiniteSets, TLC

VARIABLES
    now,                    \* the wall clock, seconds since day 0 00:00 UTC
    tz,                     \* UTC offset of the host's local (naive) time
    pc,                     \* position of the single control flow
    was_sleeping,           \* run_continuous_monitoring: was_sleeping
    current_sleep_status,   \* run_continuous_monitoring: current_sleep_status
    current_hour,           \* run_monitoring_cycle: current_hour
    current_minute,         \* run_monitoring_cycle: current_minute
    timeframe,              \* monitor_timeframe: timeframe
    idx,                    \* monitor_timeframe: i (0-based)
    data,                   \* analyze_pair: data returned by get_forex_data
    message,                \* monitor_timeframe: message to deliver
    last_alerts,            \* self.last_alerts
    daily_requests,         \* self.daily_requests
    last_reset,             \* self.last_reset (a local date, in days)
    lastApproved,           \* observer: key -> clock and zone of its latest approval
    lastQuiet,              \* observer: is_sleep_time() as seen by the previous tick
    lastSweep,              \* observer: timeframe -> clock hour its latest sweep started in
    ticks,                  \* number of loop iterations / harness steps taken
    ev                      \* observer: what the last step did

vars == <<now, tz, pc, was_sleeping, current_sleep_status, current_hour,
          current_minute, timeframe, idx, data, message, last_alerts,
          daily_requests, last_reset, lastApproved, lastQuiet, lastSweep,
          ticks, ev>>

(***************************************************************************)
(* Program constants                                                       *)
(***************************************************************************)
forex_pairs ==
    <<"EUR/USD", "GBP/USD", "USD/JPY", "USD/CHF", "AUD/USD", "USD/CAD", "NZD/USD",
      "EUR/GBP", "EUR/JPY", "EUR/CHF", "EUR/AUD", "EUR/CAD", "EUR/NZD",
      "GBP/JPY", "GBP/CHF", "GBP/AUD", "GBP/CAD", "GBP/NZD",
      "CHF/JPY", "AUD/JPY", "CAD/JPY", "NZD/JPY",
      "AUD/CHF", "AUD/CAD", "AUD/NZD",
      "CAD/CHF", "NZD/CHF", "NZD/CAD">>

rsi_oversold == 30

rsi_overbought == 70

max_daily_requests == 780

sleep_start_hour == 2

sleep_end_hour == 5

\* should_send_alert: the 4 hour cooldown, in seconds
Cooldown == 14400

\* should_check_timeframe: eligible while minute <= 2
CloseWindow == 2

\* run_monitoring_cycle: a cycle runs while minute <= 3
CycleWindow == 3

\* asyncio.sleep between two pairs of a sweep
PaceDelay == 2

\* asyncio.sleep after an awake / an asleep iteration
AwakeTick == 60

AsleepTick == 600

\* asyncio.sleep after an exception caught by the loop
ErrorBackoff == 300

\* calculate_rsi: period
RsiPeriod == 14

\* analyze_pair: at least 15 prices
MinPrices == 15

\* round(rsi, 2): RSI values carry two decimal digits
RsiScale == 100

\* Asia/Kolkata is UTC+05:30 all year
ISTOffset == 5 * 3600 + 30 * 60

(***************************************************************************)
(* Bounds of the model                                                     *)
(***************************************************************************)
\* the model monitors the first NumPairs of the 28 configured pairs
NumPairs == 2

\* clock advances of the component harnesses
MaxAdvances == 2

\* iterations of the monitoring loop
MaxTicks == 3

\* seconds a slow remote call takes; the source sets no timeout on a call
SlowCall == 1800

\* longest price series offered to the RSI engine
MaxSeriesLen == 17

Pairs == SubSeq(forex_pairs, 1, NumPairs)

Timeframes == {"1h", "4h"}

\* UTC offsets of the host's local time: UTC and IST
HostOffsets == {0, ISTOffset}

\* RSI readings offered to the deduplicator (hundredths)
RsiInputs == {1500, 3000, 3100, 7000, 7500}

\* elapsed times between quota governor calls: 1 h, 1 day
QuotaSteps == {3600, 86400}

\* elapsed times between deduplicator calls: 3h59m, 4h, 4h00m01s
DedupSteps == {14340, 14400, 14401}

\* (symbol, interval) arguments offered to the deduplicator: two keys
DedupCalls == {<<forex_pairs[1], "1h">>, <<forex_pairs[2], "4h">>}

(***************************************************************************)
(* Clock readings                                                          *)
(***************************************************************************)
\* datetime.now(self.utc).hour / .minute
UTCHour(t) == (t \div 3600) % 24

UTCMinute(t) == (t \div 60) % 60

\* datetime.now(self.ist).hour
ISTHour(t) == ((t + ISTOffset) \div 3600) % 24

\* datetime.now(): naive local time, seconds
LocalNaive(t, off) == t + off

\* datetime.now().date(): local date, days
LocalDate(t, off) == (t + off) \div (24 * 3600)

(***************************************************************************)
(* Observer record: what the last step did                                 *)
(***************************************************************************)
NoEv(op) ==
    [op |-> op, sym |-> "", tf |-> "", at |-> 0,
     issued |-> FALSE, outcome |-> "", gate |-> -1,
     called |-> FALSE, ret |-> FALSE, rsi |-> -1, gap |-> -1, since |-> -1,
     prevzone |-> "", sent |-> "none", dr0 |-> -1, lr0 |-> -1, date |-> -1,
     quiet |-> FALSE, was0 |-> FALSE, n |-> -1, prev |-> -1]

(***************************************************************************)
(* Alert deduplicator: should_send_alert                                   *)
(***************************************************************************)
\* key = f"{symbol}_{interval}"
Key(symbol, interval) == symbol \o "_" \o interval

InAlertZone_strict(rsi) ==
    rsi < rsi_oversold * RsiScale \/ rsi > rsi_overbought * RsiScale

\* is_oversold or is_overbought
InAlertZone(rsi) ==
    rsi <= rsi_oversold * RsiScale \/ rsi >= rsi_overbought * RsiScale

InCooldown_inclusive(hist, key, t) ==
    key \in DOMAIN hist /\ t - hist[key] <= Cooldown

\* key in self.last_alerts and time_diff < 14400
InCooldown(hist, key, t) ==
    key \in DOMAIN hist /\ t - hist[key] < Cooldown

should_send_alert_oversold_bypass(hist, key, rsi, t) ==
    IF ~InAlertZone(rsi) THEN [ret |-> FALSE, hist |-> hist]
    ELSE IF rsi >= rsi_overbought * RsiScale /\ InCooldown(hist, key, t)
         THEN [ret |-> FALSE, hist |-> hist]
    ELSE [ret |-> TRUE, hist |-> (key :> t) @@ hist]

should_send_alert_refresh(hist, key, rsi, t) ==
    IF ~InAlertZone(rsi) THEN [ret |-> FALSE, hist |-> hist]
    ELSE IF InCooldown(hist, key, t) THEN [ret |-> FALSE, hist |-> (key :> t) @@ hist]
    ELSE [ret |-> TRUE, hist |-> (key :> t) @@ hist]

should_send_alert_keep_first(hist, key, rsi, t) ==
    IF ~InAlertZone(rsi) THEN [ret |-> FALSE, hist |-> hist]
    ELSE IF InCooldown(hist, key, t) THEN [ret |-> FALSE, hist |-> hist]
    ELSE [ret |-> TRUE,
          hist |-> IF key \in DOMAIN hist THEN hist ELSE (key :> t) @@ hist]

\* the return value and self.last_alerts after the call; t is datetime.now()
should_send_alert(hist, key, rsi, t) ==
    IF ~InAlertZone(rsi) THEN [ret |-> FALSE, hist |-> hist]
    ELSE IF InCooldown(hist, key, t) THEN [ret |-> FALSE, hist |-> hist]
    ELSE [ret |-> TRUE, hist |-> (key :> t) @@ hist]

\* observer: seconds from the key's recorded alert to local time t, or -1
GapTo(hist, key, t) == IF key \in DOMAIN hist THEN t - hist[key] ELSE -1

\* observer: the zone of a reading, by the documented thresholds
ZoneOf(rsi) ==
    IF rsi <= 3000 THEN "OVERSOLD" ELSE IF rsi >= 7000 THEN "OVERBOUGHT" ELSE "NEUTRAL"

\* observer: seconds since the key's latest approval, or -1
SinceApproved(key, t) ==
    IF key \in DOMAIN lastApproved THEN t - lastApproved[key].t ELSE -1

\* observer: lastApproved after a should_send_alert call that returned ret
Approve(key, zone, ret) ==
    IF ret THEN (key :> [t |-> now, zone |-> zone]) @@ lastApproved
    ELSE lastApproved

\* the observer record of one should_send_alert call
DedupEv(op, symbol, interval, rsi, r) ==
    [NoEv(op) EXCEPT
        !.sym = symbol, !.tf = interval, !.at = now, !.called = TRUE,
        !.ret = r.ret, !.rsi = rsi,
        !.gap = GapTo(last_alerts, Key(symbol, interval), LocalNaive(now, tz)),
        !.since = SinceApproved(Key(symbol, interval), now),
        !.prevzone = IF Key(symbol, interval) \in DOMAIN lastApproved
                     THEN lastApproved[Key(symbol, interval)].zone ELSE ""]

(***************************************************************************)
(* Quota governor: reset_daily_counter, can_make_request                   *)
(***************************************************************************)
reset_daily_counter_every_call(dr, lr, date) ==
    IF date >= lr THEN [dr |-> 0, lr |-> date] ELSE [dr |-> dr, lr |-> lr]

\* daily_requests and last_reset after the call; date is datetime.now().date()
reset_daily_counter(dr, lr, date) ==
    IF date > lr THEN [dr |-> 0, lr |-> date] ELSE [dr |-> dr, lr |-> lr]

can_make_request_inclusive(dr, lr, date) ==
    LET q == reset_daily_counter(dr, lr, date)
    IN  [ret |-> q.dr <= max_daily_requests, dr |-> q.dr, lr |-> q.lr]

\* the return value, and the quota state after the reset it performs first
can_make_request(dr, lr, date) ==
    LET q == reset_daily_counter(dr, lr, date)
    IN  [ret |-> q.dr < max_daily_requests, dr |-> q.dr, lr |-> q.lr]

(***************************************************************************)
(* Fetch: get_forex_data                                                   *)
(***************************************************************************)
\* what the remote call can do:
\*   ok                 status 200, JSON without an error code
\*   api_error          status 200, JSON with 'code' != 200
\*   http_error         status != 200
\*   timeout_connect    asyncio.TimeoutError raised by session.get
\*   transport_connect  another exception raised by session.get
\*   timeout_body       asyncio.TimeoutError raised by response.json()
\*   bad_json           another exception raised by response.json()
FetchOutcomes ==
    {"ok", "api_error", "http_error", "timeout_connect", "transport_connect",
     "timeout_body", "bad_json"}

\* self.daily_requests += 1 is the first statement inside
\* `async with session.get(...) as response`: it runs once a response has
\* arrived, and not when session.get itself raises
Counted(outcome) == outcome \notin {"timeout_connect", "transport_connect"}

\* data = None
NoneData ==
    [none |-> TRUE, has_values |-> FALSE, closes_ok |-> FALSE,
     has_datetime |-> FALSE, ts_ok |-> FALSE, values |-> <<>>]

\* the quota state after get_forex_data, whether the remote call was issued,
\* and the data returned
get_forex_data(dr, lr, date, outcome, payload) ==
    LET c == can_make_request(dr, lr, date)
    IN  IF ~c.ret
        THEN [dr |-> c.dr, lr |-> c.lr, can |-> FALSE, issued |-> FALSE,
              data |-> NoneData]
        ELSE [dr |-> IF Counted(outcome) THEN c.dr + 1 ELSE c.dr,
              lr |-> c.lr, can |-> TRUE, issued |-> TRUE,
              data |-> IF outcome = "ok" THEN payload ELSE NoneData]

\* the observer record of one get_forex_data call
FetchEv(op, symbol, interval, outcome, r) ==
    [NoEv(op) EXCEPT
        !.sym = symbol, !.tf = interval, !.at = now, !.issued = r.issued,
        !.outcome = IF r.issued THEN outcome ELSE "denied",
        !.ret = r.can,
        !.gate = can_make_request(daily_requests, last_reset,
                                  LocalDate(now, tz)).dr,
        !.dr0 = daily_requests, !.lr0 = last_reset,
        !.date = LocalDate(now, tz)]

(***************************************************************************)
(* RSI engine: calculate_rsi.  Prices are integers; the averages are kept  *)
(* as exact fractions with the common denominator 14^(k-13) after k        *)
(* deltas, so avg_loss == 0 is decided exactly.                            *)
(***************************************************************************)
Reverse(s) == [i \in 1..Len(s) |-> s[Len(s) + 1 - i]]

\* deltas = [prices[i] - prices[i-1] for i in range(1, len(prices))]
Deltas(prices) == [i \in 1..(Len(prices) - 1) |-> prices[i + 1] - prices[i]]

Gains(deltas) == [i \in DOMAIN deltas |-> IF deltas[i] > 0 THEN deltas[i] ELSE 0]

Losses(deltas) == [i \in DOMAIN deltas |-> IF deltas[i] < 0 THEN -deltas[i] ELSE 0]

RECURSIVE SumFirst(_, _)
SumFirst(xs, n) == IF n = 0 THEN 0 ELSE SumFirst(xs, n - 1) + xs[n]

RECURSIVE Pow(_, _)
Pow(b, n) == IF n = 0 THEN 1 ELSE b * Pow(b, n - 1)

\* the numerator of the smoothed average after k >= period values, over the
\* denominator period^(k - period + 1)
RECURSIVE WilderNum(_, _)
WilderNum(xs, k) ==
    IF k = RsiPeriod THEN SumFirst(xs, RsiPeriod)
    ELSE WilderNum(xs, k - 1) * (RsiPeriod - 1)
            + xs[k] * Pow(RsiPeriod, k - RsiPeriod)

\* round(100 - 100 / (1 + g / l), 2) in hundredths: 100 * g / (g + l), rounded
RoundRsi(g, l) == (2 * 100 * RsiScale * g + (g + l)) \div (2 * (g + l))

calculate_rsi_no_minimum(prices) ==
    IF Len(prices) < RsiPeriod + 1 THEN 100 * RsiScale
    ELSE LET deltas == Deltas(prices)
             g == WilderNum(Gains(deltas), Len(deltas))
             l == WilderNum(Losses(deltas), Len(deltas))
         IN  IF l = 0 THEN 100 * RsiScale ELSE RoundRsi(g, l)

\* -2 stands for the ZeroDivisionError of avg_gain / avg_loss
calculate_rsi_unguarded(prices) ==
    IF Len(prices) < RsiPeriod + 1 THEN -1
    ELSE LET deltas == Deltas(prices)
             g == WilderNum(Gains(deltas), Len(deltas))
             l == WilderNum(Losses(deltas), Len(deltas))
         IN  IF l = 0 THEN -2 ELSE RoundRsi(g, l)

\* the RSI in hundredths, or -1 for None
calculate_rsi(prices) ==
    IF Len(prices) < RsiPeriod + 1 THEN -1
    ELSE LET deltas == Deltas(prices)
             g == WilderNum(Gains(deltas), Len(deltas))
             l == WilderNum(Losses(deltas), Len(deltas))
         IN  IF l = 0 THEN 100 * RsiScale ELSE RoundRsi(g, l)

(***************************************************************************)
(* Responses of the fetch collaborator                                     *)
(***************************************************************************)
\* chronological closing prices
UpSeries == [i \in 1..15 |-> 100 + i]

DownSeries == [i \in 1..16 |-> 200 - i]

MixedSeries == [i \in 1..15 |-> 100 + (i \div 2) + (IF i % 2 = 0 THEN 2 ELSE 0)]

ShortSeries == [i \in 1..14 |-> 200 - i]

\* a JSON document: data['values'] lists the candles newest first
Document(has_values, closes_ok, has_datetime, ts_ok, series) ==
    [none |-> FALSE, has_values |-> has_values, closes_ok |-> closes_ok,
     has_datetime |-> has_datetime, ts_ok |-> ts_ok, values |-> Reverse(series)]

\* every candle of the documents offered carries a 'datetime'
Payloads ==
    { Document(FALSE, FALSE, FALSE, FALSE, <<>>),      \* no 'values'
      Document(TRUE, FALSE, TRUE, TRUE, UpSeries),     \* a 'close' that is no number
      Document(TRUE, TRUE, TRUE, TRUE, ShortSeries),   \* 14 candles
      Document(TRUE, TRUE, TRUE, FALSE, DownSeries),   \* 'datetime' not ISO
      Document(TRUE, TRUE, TRUE, TRUE, UpSeries),
      Document(TRUE, TRUE, TRUE, TRUE, DownSeries),
      Document(TRUE, TRUE, TRUE, TRUE, MixedSeries) }

(***************************************************************************)
(* analyze_pair after the fetch, format_alert_message                      *)
(***************************************************************************)
\* kind: "none" (returns None, with its reason), "raise" (KeyError at
\* data['values'][0]['datetime']) or "analysis"
analyze_pair(d) ==
    LET prices == Reverse(d.values)
        res(kind, why, rsi) == [kind |-> kind, why |-> why, rsi |-> rsi,
                                ts_ok |-> d.ts_ok]
    IN  IF d.none \/ ~d.has_values THEN res("none", "no_data", -1)
        ELSE IF ~d.closes_ok THEN res("none", "parse_error", -1)
        ELSE IF Len(prices) < MinPrices THEN res("none", "insufficient", -1)
        ELSE IF calculate_rsi(prices) = -1 THEN res("none", "no_rsi", -1)
        ELSE IF ~d.has_datetime THEN res("raise", "no_datetime", -1)
        ELSE res("analysis", "", calculate_rsi(prices))

\* the signal the message names, or "raise" when the timestamp does not parse
format_alert_message(rsi, ts_ok) ==
    IF ~ts_ok THEN "raise"
    ELSE IF rsi <= rsi_oversold * RsiScale THEN "OVERSOLD" ELSE "OVERBOUGHT"

(***************************************************************************)
(* Candle scheduler                                                        *)
(***************************************************************************)
is_sleep_time(t) == sleep_start_hour <= ISTHour(t) /\ ISTHour(t) < sleep_end_hour

should_check_timeframe_any_minute(tf, t) ==
    IF tf = "1h" THEN TRUE
    ELSE IF tf = "4h" THEN UTCHour(t) % 4 = 0
    ELSE FALSE

\* t is the moment of the call
should_check_timeframe(tf, t) ==
    IF UTCMinute(t) > CloseWindow THEN FALSE
    ELSE IF tf = "1h" THEN TRUE
    ELSE IF tf = "4h" THEN UTCHour(t) % 4 = 0
    ELSE FALSE

(***************************************************************************)
(* Construction: ForexRSIBot.__init__                                      *)
(***************************************************************************)
Constructed(t, off) ==
    /\ now = t
    /\ tz = off
    /\ was_sleeping = FALSE
    /\ current_sleep_status = FALSE
    /\ current_hour = 0
    /\ current_minute = 0
    /\ timeframe = ""
    /\ idx = 0
    /\ data = NoneData
    /\ message = "none"
    /\ last_alerts = [k \in {} |-> 0]
    /\ daily_requests = 0
    /\ last_reset = LocalDate(t, off)
    /\ lastApproved = [k \in {} |-> 0]
    /\ lastQuiet = FALSE
    /\ lastSweep = [k \in {} |-> 0]
    /\ ticks = 0
    /\ ev = NoEv("init")

(***************************************************************************)
(* Harness of the deduplicator: any sequence of should_send_alert calls    *)
(* at non-decreasing times.                                                *)
(***************************************************************************)
InitDedup ==
    /\ pc = "dedup"
    /\ \E off \in HostOffsets : Constructed(0, off)

ClockAdvance(d) ==
    /\ ticks < MaxAdvances
    /\ now' = now + d
    /\ ticks' = ticks + 1
    /\ ev' = NoEv("advance")
    /\ UNCHANGED <<tz, pc, was_sleeping, current_sleep_status, current_hour,
                   current_minute, timeframe, idx, data, message, last_alerts,
                   daily_requests, last_reset, lastApproved, lastQuiet,
                   lastSweep>>

CallShouldSendAlert(symbol, interval, rsi) ==
    LET r == should_send_alert(last_alerts, Key(symbol, interval), rsi,
                               LocalNaive(now, tz))
    IN  /\ last_alerts' = r.hist
        /\ lastApproved' = Approve(Key(symbol, interval), ZoneOf(rsi), r.ret)
        /\ ev' = DedupEv("should_send_alert", symbol, interval, rsi, r)
        /\ UNCHANGED <<now, tz, pc, was_sleeping, current_sleep_status,
                       current_hour, current_minute, timeframe, idx, data,
                       message, daily_requests, last_reset, lastQuiet,
                       lastSweep, ticks>>

NextDedup ==
    \/ \E d \in DedupSteps : ClockAdvance(d)
    \/ \E c \in DedupCalls, rsi \in RsiInputs :
          CallShouldSendAlert(c[1], c[2], rsi)

SpecDedup == InitDedup /\ [][NextDedup]_vars

(***************************************************************************)
(* Harness of the quota governor: any sequence of can_make_request and     *)
(* get_forex_data calls at non-decreasing times, from 18:00 UTC of day 0.  *)
(***************************************************************************)
InitQuota ==
    /\ pc = "quota"
    /\ \E off \in HostOffsets : Constructed(18 * 3600, off)

CallCanMakeRequest ==
    LET c == can_make_request(daily_requests, last_reset, LocalDate(now, tz))
    IN  /\ daily_requests' = c.dr
        /\ last_reset' = c.lr
        /\ ev' = [NoEv("can_make_request") EXCEPT
                    !.at = now, !.ret = c.ret, !.gate = c.dr,
                    !.dr0 = daily_requests, !.lr0 = last_reset,
                    !.date = LocalDate(now, tz)]
        /\ UNCHANGED <<now, tz, pc, was_sleeping, current_sleep_status,
                       current_hour, current_minute, timeframe, idx, data,
                       message, last_alerts, lastApproved, lastQuiet,
                       lastSweep, ticks>>

CallGetForexData(symbol, interval, outcome) ==
    LET r == get_forex_data(daily_requests, last_reset, LocalDate(now, tz),
                            outcome, NoneData)
    IN  /\ daily_requests' = r.dr
        /\ last_reset' = r.lr
        /\ ev' = FetchEv("get_forex_data", symbol, interval, outcome, r)
        /\ UNCHANGED <<now, tz, pc, was_sleeping, current_sleep_status,
                       current_hour, current_minute, timeframe, idx, data,
                       message, last_alerts, lastApproved, lastQuiet,
                       lastSweep, ticks>>

NextQuota ==
    \/ \E d \in QuotaSteps : ClockAdvance(d)
    \/ CallCanMakeRequest
    \/ \E outcome \in FetchOutcomes :
          CallGetForexData(forex_pairs[1], "1h", outcome)

SpecQuota == InitQuota /\ [][NextQuota]_vars

(***************************************************************************)
(* Harness of the candle scheduler: should_check_timeframe called at any   *)
(* hour of two days, at minutes around the closing window.                 *)
(***************************************************************************)
SchedDays == {0, 1}

SchedMinutes == {0, 1, 2, 3, 5, 59}

SchedSeconds == {0, 59}

\* the two configured timeframes and one that is not configured
SchedTimeframes == Timeframes \cup {"1day"}

InitSched ==
    /\ pc = "sched"
    /\ \E d \in SchedDays, h \in 0..23, m \in SchedMinutes, sec \in SchedSeconds :
          Constructed(d * 86400 + h * 3600 + m * 60 + sec, 0)

CallShouldCheckTimeframe(tf) ==
    /\ pc = "sched"
    /\ ev' = [NoEv("should_check_timeframe") EXCEPT
                !.tf = tf, !.at = now, !.ret = should_check_timeframe(tf, now)]
    /\ UNCHANGED <<now, tz, pc, was_sleeping, current_sleep_status,
                   current_hour, current_minute, timeframe, idx, data, message,
                   last_alerts, daily_requests, last_reset, lastApproved,
                   lastQuiet, lastSweep, ticks>>

NextSched == \E tf \in SchedTimeframes : CallShouldCheckTimeframe(tf)

SpecSched == InitSched /\ [][NextSched]_vars

(***************************************************************************)
(* Properties of the candle scheduler                                      *)
(***************************************************************************)
\* C12: eligibility is a function of the UTC hour and minute of the call:
\* "1h" is eligible iff minute <= 2, "4h" iff minute <= 2 and the hour is
\* divisible by 4; so "4h" is not eligible at hour 13, is at 16:01 and is not
\* at 16:05.
C12_Eligibility ==
    ev.op = "should_check_timeframe" =>
        LET hour == (ev.at \div 3600) % 24
            minute == (ev.at \div 60) % 60
        IN  /\ (ev.tf = "1h" => (ev.ret <=> minute <= 2))
            /\ (ev.tf = "4h" => (ev.ret <=> (minute <= 2 /\ hour % 4 = 0)))
            /\ (ev.tf = "4h" /\ hour = 13 => ~ev.ret)
            /\ (ev.tf = "4h" /\ hour = 16 /\ minute = 1 => ev.ret)
            /\ (ev.tf = "4h" /\ hour = 16 /\ minute = 5 => ~ev.ret)

\* "4h" found eligible at 16:01:59 UTC of the second day
C12_Witness ==
    /\ ev.op = "should_check_timeframe" /\ ev.tf = "4h" /\ ev.ret
    /\ ev.at = 86400 + 16 * 3600 + 60 + 59

(***************************************************************************)
(* Properties of the deduplicator                                          *)
(***************************************************************************)
\* C1: two approved alerts of one key are never closer together than the
\* cooldown: a call made less than 14400 s after the key's latest approval
\* returns false, whatever zone its reading and the approved reading are in.
C1_CooldownSpacing ==
    (ev.called /\ ev.since # -1 /\ ev.since < 14400) => ~ev.ret

\* an oversold reading 3h59m after an approved overbought one, suppressed
C1_Witness ==
    /\ ev.called /\ ~ev.ret
    /\ ev.since = 14340
    /\ ZoneOf(ev.rsi) = "OVERSOLD" /\ ev.prevzone = "OVERBOUGHT"

\* C2 as stated: an in-zone reading exactly 14400 s after the key's recorded
\* alert is still suppressed.
C2_Original ==
    (ev.called /\ ZoneOf(ev.rsi) # "NEUTRAL" /\ ev.gap = 14400) => ~ev.ret

\* C2 amended: the cooldown window is half-open. An in-zone reading of a key
\* with a recorded alert is suppressed iff the gap is strictly below 14400 s;
\* a gap of exactly 14400 s is approved.
C2_CooldownBoundary ==
    (ev.called /\ ZoneOf(ev.rsi) # "NEUTRAL" /\ ev.gap # -1)
        => (ev.ret <=> ev.gap >= 14400)

\* an in-zone reading exactly 4 h after the recorded alert, approved
C2_Witness ==
    ev.called /\ ZoneOf(ev.rsi) # "NEUTRAL" /\ ev.gap = 14400 /\ ev.ret

\* C3: an in-zone reading of a key with no recorded alert, or with one more
\* than 14400 s old, is approved, and the key's entry then is the current
\* time: the next window is measured from this alert.
C3_ApprovalRecordsNow ==
    (ev.called /\ ZoneOf(ev.rsi) # "NEUTRAL" /\ (ev.gap = -1 \/ ev.gap > 14400))
        => /\ ev.ret
           /\ Key(ev.sym, ev.tf) \in DOMAIN last_alerts
           /\ last_alerts[Key(ev.sym, ev.tf)] = LocalNaive(ev.at, tz)

\* the second alert of a key, 4h00m01s after its first, overwrites the entry
C3_Witness ==
    /\ ev.called /\ ev.ret /\ ev.gap = 14401
    /\ last_alerts[Key(ev.sym, ev.tf)] = LocalNaive(now, tz)

\* C4: thresholds are inclusive. A key without history alerts iff
\* rsi <= 30 or rsi >= 70, and a reading strictly between the thresholds never
\* alerts, with or without history.
C4_InclusiveZones ==
    ev.called =>
        /\ (ev.gap = -1 => (ev.ret <=> (ev.rsi <= 3000 \/ ev.rsi >= 7000)))
        /\ (ev.rsi > 3000 /\ ev.rsi < 7000 => ~ev.ret)

\* a reading of exactly 30 or exactly 70 alerts
C4_Witness ==
    ev.called /\ ev.ret /\ ev.rsi \in {3000, 7000}

(***************************************************************************)
(* The program: main, test_connection, run_continuous_monitoring           *)
(***************************************************************************)
\* moments the process is started at: 19:01:30, 20:02:30 and 23:25:00 UTC
StartTimes == {19 * 3600 + 90, 20 * 3600 + 150, 23 * 3600 + 25 * 60}

\* seconds a fetch takes: a call that ends without a response or in a timeout
\* ends after SlowCall seconds, a response is taken as immediate
FetchDelay(outcome) ==
    IF outcome \in {"timeout_connect", "timeout_body", "transport_connect"}
    THEN SlowCall ELSE 0

\* bot.send_message can succeed or raise
DeliveryOutcomes == {"sent", "failed"}

SweepPcs == {"fetch", "analyze", "deliver", "pace"}

Init ==
    /\ pc = "test"
    /\ \E t \in StartTimes : Constructed(t, 0)

\* test_connection, and main's branch on its result
TestConnection(me_ok, outcome, payload, delay) ==
    LET r == get_forex_data(daily_requests, last_reset, LocalDate(now, tz),
                            outcome, payload)
        ok == me_ok /\ ~r.data.none /\ r.data.has_values /\ r.data.closes_ok
    IN  /\ pc = "test"
        /\ daily_requests' = IF me_ok THEN r.dr ELSE daily_requests
        /\ last_reset' = IF me_ok THEN r.lr ELSE last_reset
        /\ now' = IF me_ok /\ r.issued THEN now + delay ELSE now
        /\ pc' = IF ok THEN "startup" ELSE "exit"
        /\ ev' = IF me_ok
                 THEN [FetchEv("test_connection", forex_pairs[1], "1h", outcome, r)
                          EXCEPT !.sent = IF ok THEN "test" ELSE "none"]
                 ELSE NoEv("test_connection")
        /\ UNCHANGED <<tz, was_sleeping, current_sleep_status, current_hour,
                       current_minute, timeframe, idx, data, message,
                       last_alerts, lastApproved, lastQuiet, lastSweep, ticks>>

\* run_continuous_monitoring up to the loop: the startup message
Startup(delivery) ==
    /\ pc = "startup"
    /\ was_sleeping' = FALSE
    /\ pc' = "top"
    /\ ev' = [NoEv("startup") EXCEPT !.at = now, !.sent = "startup",
                                     !.outcome = delivery]
    /\ UNCHANGED <<now, tz, current_sleep_status, current_hour, current_minute,
                   timeframe, idx, data, message, last_alerts, daily_requests,
                   last_reset, lastApproved, lastQuiet, lastSweep, ticks>>

SleepTransition_no_update(quiet, was) ==
    IF quiet /\ ~was THEN [sent |-> "sleep", was |-> was]
    ELSE IF ~quiet /\ was THEN [sent |-> "wake", was |-> was]
    ELSE [sent |-> "none", was |-> was]

\* "Handle sleep transitions": the message sent and was_sleeping afterwards
SleepTransition(quiet, was) ==
    IF quiet /\ ~was THEN [sent |-> "sleep", was |-> TRUE]
    ELSE IF ~quiet /\ was THEN [sent |-> "wake", was |-> FALSE]
    ELSE [sent |-> "none", was |-> was]

\* the head of a loop iteration: read is_sleep_time(), handle the transition
LoopTop(delivery) ==
    LET quiet == is_sleep_time(now)
        tr == SleepTransition(quiet, was_sleeping)
    IN  /\ pc = "top"
        /\ ticks < MaxTicks
        /\ ticks' = ticks + 1
        /\ current_sleep_status' = quiet
        /\ was_sleeping' = tr.was
        /\ lastQuiet' = quiet
        /\ pc' = IF ~quiet THEN "cycle" ELSE "sleep600"
        /\ ev' = [NoEv("tick") EXCEPT !.at = now, !.sent = tr.sent,
                                      !.outcome = IF tr.sent = "none" THEN ""
                                                  ELSE delivery,
                                      !.quiet = quiet, !.was0 = lastQuiet]
        /\ UNCHANGED <<now, tz, current_hour, current_minute, timeframe, idx,
                       data, message, last_alerts, daily_requests, last_reset,
                       lastApproved, lastSweep>>

\* run_monitoring_cycle up to the first monitor_timeframe call
CycleStart ==
    /\ pc = "cycle"
    /\ IF is_sleep_time(now) \/ UTCMinute(now) > CycleWindow
       THEN /\ pc' = "sleep60"
            /\ UNCHANGED <<current_hour, current_minute, timeframe>>
       ELSE /\ current_hour' = UTCHour(now)
            /\ current_minute' = UTCMinute(now)
            /\ timeframe' = "1h"
            /\ pc' = "enter"
    /\ ev' = NoEv("cycle")
    /\ UNCHANGED <<now, tz, was_sleeping, current_sleep_status, idx, data,
                   message, last_alerts, daily_requests, last_reset,
                   lastApproved, lastQuiet, lastSweep, ticks>>

\* control after monitor_timeframe(tf) returned to run_monitoring_cycle
AfterSweep(tf) ==
    IF tf = "1h" /\ current_hour % 4 = 0
    THEN [pc |-> "enter", timeframe |-> "4h", idx |-> 0]
    ELSE [pc |-> "sleep60", timeframe |-> "", idx |-> 0]

\* the for loop of monitor_timeframe moving on from pair i (0-based)
NextPair(i) ==
    IF i + 1 < NumPairs
    THEN [pc |-> "fetch", timeframe |-> timeframe, idx |-> i + 1]
    ELSE AfterSweep(timeframe)

OnError_abort(i) == AfterSweep(timeframe)

\* except Exception: log, continue
OnError(i) == NextPair(i)

\* monitor_timeframe: the eligibility check at its entry
EnterTimeframe ==
    LET to == IF should_check_timeframe(timeframe, now)
              THEN [pc |-> "fetch", timeframe |-> timeframe, idx |-> 0]
              ELSE AfterSweep(timeframe)
    IN  /\ pc = "enter"
        /\ pc' = to.pc
        /\ timeframe' = to.timeframe
        /\ idx' = to.idx
        /\ lastSweep' = IF should_check_timeframe(timeframe, now)
                        THEN (timeframe :> now \div 3600) @@ lastSweep
                        ELSE lastSweep
        /\ ev' = [NoEv("enter") EXCEPT
                    !.tf = timeframe, !.at = now,
                    !.ret = should_check_timeframe(timeframe, now),
                    !.prev = IF timeframe \in DOMAIN lastSweep
                             THEN lastSweep[timeframe] ELSE -1]
        /\ UNCHANGED <<now, tz, was_sleeping, current_sleep_status,
                       current_hour, current_minute, data, message,
                       last_alerts, daily_requests, last_reset, lastApproved,
                       lastQuiet, ticks>>

\* analyze_pair: data = await self.get_forex_data(symbol, interval)
Fetch(outcome, payload, delay) ==
    LET r == get_forex_data(daily_requests, last_reset, LocalDate(now, tz),
                            outcome, payload)
    IN  /\ pc = "fetch"
        /\ daily_requests' = r.dr
        /\ last_reset' = r.lr
        /\ data' = r.data
        /\ now' = IF r.issued THEN now + delay ELSE now
        /\ pc' = "analyze"
        /\ ev' = FetchEv("fetch", Pairs[idx + 1], timeframe, outcome, r)
        /\ UNCHANGED <<tz, was_sleeping, current_sleep_status, current_hour,
                       current_minute, timeframe, idx, message, last_alerts,
                       lastApproved, lastQuiet, lastSweep, ticks>>

\* the rest of analyze_pair, should_send_alert and format_alert_message
Analyze ==
    LET symbol == Pairs[idx + 1]
        a == analyze_pair(data)
        r == IF a.kind = "analysis"
             THEN should_send_alert(last_alerts, Key(symbol, timeframe), a.rsi,
                                    LocalNaive(now, tz))
             ELSE [ret |-> FALSE, hist |-> last_alerts]
        msg == IF r.ret THEN format_alert_message(a.rsi, a.ts_ok) ELSE "none"
        to == IF a.kind = "raise" \/ msg = "raise" THEN OnError(idx)
              ELSE IF r.ret
                   THEN [pc |-> "deliver", timeframe |-> timeframe, idx |-> idx]
                   ELSE [pc |-> "pace", timeframe |-> timeframe, idx |-> idx]
        base == IF a.kind = "analysis"
                THEN DedupEv("analyze", symbol, timeframe, a.rsi, r)
                ELSE [NoEv("analyze") EXCEPT !.sym = symbol, !.tf = timeframe,
                                             !.at = now]
    IN  /\ pc = "analyze"
        /\ last_alerts' = r.hist
        /\ lastApproved' = Approve(Key(symbol, timeframe), "", r.ret)
        /\ data' = NoneData
        /\ message' = IF msg = "raise" THEN "none" ELSE msg
        /\ pc' = to.pc
        /\ timeframe' = to.timeframe
        /\ idx' = to.idx
        /\ ev' = [base EXCEPT
                    !.n = Len(data.values),
                    !.outcome = IF a.kind = "raise" THEN a.why
                                ELSE IF msg = "raise" THEN "format_error"
                                ELSE IF a.kind = "none" THEN a.why
                                ELSE "analysis"]
        /\ UNCHANGED <<now, tz, was_sleeping, current_sleep_status,
                       current_hour, current_minute, daily_requests,
                       last_reset, lastQuiet, lastSweep, ticks>>

Deliver_retry(delivery) ==
    /\ pc = "deliver"
    /\ message' = IF delivery = "failed" THEN message ELSE "none"
    /\ pc' = IF delivery = "failed" THEN "deliver" ELSE "pace"
    /\ ev' = [NoEv("deliver") EXCEPT !.sym = Pairs[idx + 1], !.tf = timeframe,
                                     !.at = now, !.sent = message,
                                     !.outcome = delivery]
    /\ UNCHANGED <<now, tz, was_sleeping, current_sleep_status, current_hour,
                   current_minute, timeframe, idx, data, last_alerts,
                   daily_requests, last_reset, lastApproved, lastQuiet,
                   lastSweep, ticks>>

\* await self.send_telegram_message(message): the exception of a failed
\* bot.send_message is caught and logged inside
Deliver(delivery) ==
    /\ pc = "deliver"
    /\ message' = "none"
    /\ pc' = "pace"
    /\ ev' = [NoEv("deliver") EXCEPT !.sym = Pairs[idx + 1], !.tf = timeframe,
                                     !.at = now, !.sent = message,
                                     !.outcome = delivery]
    /\ UNCHANGED <<now, tz, was_sleeping, current_sleep_status, current_hour,
                   current_minute, timeframe, idx, data, last_alerts,
                   daily_requests, last_reset, lastApproved, lastQuiet,
                   lastSweep, ticks>>

\* the delay between pairs, not after the last one; then the next pair
Pace ==
    LET to == NextPair(idx)
    IN  /\ pc = "pace"
        /\ now' = IF idx < NumPairs - 1 THEN now + PaceDelay ELSE now
        /\ pc' = to.pc
        /\ timeframe' = to.timeframe
        /\ idx' = to.idx
        /\ ev' = [NoEv("pace") EXCEPT !.at = now]
        /\ UNCHANGED <<tz, was_sleeping, current_sleep_status, current_hour,
                       current_minute, data, message, last_alerts,
                       daily_requests, last_reset, lastApproved, lastQuiet,
                       lastSweep, ticks>>

\* asyncio.sleep(60) when awake, asyncio.sleep(600) during sleep hours
LoopSleep ==
    /\ pc \in {"sleep60", "sleep600"}
    /\ now' = now + (IF pc = "sleep60" THEN AwakeTick ELSE AsleepTick)
    /\ pc' = "top"
    /\ ev' = NoEv("sleep")
    /\ UNCHANGED <<tz, was_sleeping, current_sleep_status, current_hour,
                   current_minute, timeframe, idx, data, message, last_alerts,
                   daily_requests, last_reset, lastApproved, lastQuiet,
                   lastSweep, ticks>>

OnLoopError_exit(t) == [pc |-> "exit", now |-> t]

\* except Exception: log, asyncio.sleep(300), and back to `while True`
OnLoopError(t) == [pc |-> "top", now |-> t + ErrorBackoff]

\* a statement of run_monitoring_cycle or monitor_timeframe outside the
\* per-pair try block raises an Exception: it leaves both calls and is caught
\* by the handler of the loop
TickError ==
    LET to == OnLoopError(now)
    IN  /\ pc \in {"cycle", "enter"}
        /\ pc' = to.pc
        /\ now' = to.now
        /\ timeframe' = ""
        /\ idx' = 0
        /\ ev' = [NoEv("error") EXCEPT !.at = now]
        /\ UNCHANGED <<tz, was_sleeping, current_sleep_status, current_hour,
                       current_minute, data, message, last_alerts,
                       daily_requests, last_reset, lastApproved, lastQuiet,
                       lastSweep, ticks>>

Next ==
    \/ \E me_ok \in BOOLEAN, outcome \in FetchOutcomes, payload \in Payloads :
          TestConnection(me_ok, outcome, payload, FetchDelay(outcome))
    \/ \E delivery \in DeliveryOutcomes : Startup(delivery)
    \/ \E delivery \in DeliveryOutcomes : LoopTop(delivery)
    \/ CycleStart
    \/ EnterTimeframe
    \/ \E outcome \in FetchOutcomes, payload \in Payloads :
          Fetch(outcome, payload, FetchDelay(outcome))
    \/ Analyze
    \/ \E delivery \in DeliveryOutcomes : Deliver(delivery)
    \/ Pace
    \/ LoopSleep
    \/ TickError

Spec == Init /\ [][Next]_vars

(***************************************************************************)
(* Harness of the RSI engine: the first pair of the first sweep of a       *)
(* process started at 19:01:30 UTC, with a response carrying any of the    *)
(* price series below; calculate_rsi is also called on the series alone.   *)
(***************************************************************************)
SeriesKinds == {"up", "down", "flat", "zigzag", "dip"}

SeriesSteps == {1, 3}

\* chronological closing prices of n candles
Series(kind, n, step) ==
    [i \in 1..n |->
        IF kind = "up" THEN 1000 + step * i
        ELSE IF kind = "down" THEN 1000 - step * i
        ELSE IF kind = "flat" THEN 1000
        ELSE IF kind = "zigzag" THEN 1000 + (IF i % 2 = 0 THEN step ELSE 0)
        ELSE IF i = n THEN 1000 + step * (i - 2) ELSE 1000 + step * i]

SeriesPayloads ==
    { Document(TRUE, TRUE, TRUE, TRUE, Series(kind, n, step)) :
        kind \in SeriesKinds, n \in 0..MaxSeriesLen, step \in SeriesSteps }

InitRsi ==
    /\ pc = "cycle"
    /\ Constructed(19 * 3600 + 90, 0)

\* rsi = await self.calculate_rsi(prices), on the series just fetched
CallCalculateRsi ==
    /\ pc = "analyze"
    /\ ev' = [NoEv("calculate_rsi") EXCEPT
                !.at = now, !.n = Len(data.values),
                !.rsi = calculate_rsi(Reverse(data.values))]
    /\ UNCHANGED <<now, tz, pc, was_sleeping, current_sleep_status,
                   current_hour, current_minute, timeframe, idx, data, message,
                   last_alerts, daily_requests, last_reset, lastApproved,
                   lastQuiet, lastSweep, ticks>>

NextRsi ==
    \/ CycleStart
    \/ EnterTimeframe
    \/ \E payload \in SeriesPayloads : idx = 0 /\ Fetch("ok", payload, 0)
    \/ CallCalculateRsi
    \/ Analyze

SpecRsi == InitRsi /\ [][NextRsi]_vars

(***************************************************************************)
(* Properties of the RSI engine                                            *)
(***************************************************************************)
\* C14: calculate_rsi returns None (-1), and raises nothing, for every series
\* of fewer than 15 prices, the empty one included; for such a series the
\* sweep makes no reading and no should_send_alert call, records no alert,
\* prepares no message and goes on to the pacing delay.
C14_InsufficientHistory ==
    /\ (ev.op = "calculate_rsi" /\ ev.n < 15 => ev.rsi = -1)
    /\ (ev.op = "analyze" /\ ev.n < 15 =>
            /\ ~ev.called /\ ev.rsi = -1
            /\ pc = "pace" /\ message = "none"
            /\ DOMAIN last_alerts = {})

\* a response of 14 candles, skipped as insufficient
C14_Witness ==
    ev.op = "analyze" /\ ev.n = 14 /\ ev.outcome = "insufficient" /\ pc = "pace"

\* a second case of the same claim: the empty series given to calculate_rsi
C14_WitnessEmpty ==
    ev.op = "calculate_rsi" /\ ev.n = 0 /\ ev.rsi = -1

StrictlyIncreasing(prices) ==
    \A i \in 1..(Len(prices) - 1) : prices[i] < prices[i + 1]

StrictlyDecreasing(prices) ==
    \A i \in 1..(Len(prices) - 1) : prices[i] > prices[i + 1]

\* C15: for a strictly increasing series of at least 15 prices calculate_rsi
\* returns exactly 100.0, for a strictly decreasing one exactly 0.0, and in
\* neither case divides by zero.
C15_MonotoneExtremes ==
    (ev.op = "calculate_rsi" /\ ev.n >= 15) =>
        /\ ev.rsi # -2
        /\ (StrictlyIncreasing(Reverse(data.values)) => ev.rsi = 100 * 100)
        /\ (StrictlyDecreasing(Reverse(data.values)) => ev.rsi = 0)

\* 16 strictly increasing prices give 100.0
C15_Witness ==
    /\ ev.op = "calculate_rsi" /\ ev.n = 16 /\ ev.rsi = 10000
    /\ StrictlyIncreasing(Reverse(data.values))

(***************************************************************************)
(* Harness of a sweep near the quota limit: the tick at 20:00:30 UTC of a  *)
(* process that has been running since earlier that day and has counted    *)
(* 778, 779 or 780 requests; the tick sweeps "1h" and then "4h".  The      *)
(* quota harness shows the counter reaching 780 from construction.         *)
(***************************************************************************)
QuotaLevels ==
    {max_daily_requests - 2, max_daily_requests - 1, max_daily_requests}

InitSweep ==
    /\ pc = "cycle"
    /\ now = 20 * 3600 + 30
    /\ tz \in HostOffsets
    /\ was_sleeping = FALSE
    /\ current_sleep_status = FALSE
    /\ current_hour = 0
    /\ current_minute = 0
    /\ timeframe = ""
    /\ idx = 0
    /\ data = NoneData
    /\ message = "none"
    /\ last_alerts = [k \in {} |-> 0]
    /\ daily_requests \in QuotaLevels
    /\ last_reset = LocalDate(now, tz)
    /\ lastApproved = [k \in {} |-> 0]
    /\ lastQuiet = FALSE
    /\ lastSweep = [k \in {} |-> 0]
    /\ ticks = 1
    /\ ev = NoEv("tick")

NextSweep ==
    \/ CycleStart
    \/ EnterTimeframe
    \/ \E outcome \in FetchOutcomes, payload \in Payloads :
          Fetch(outcome, payload, FetchDelay(outcome))
    \/ Analyze
    \/ \E delivery \in DeliveryOutcomes : Deliver(delivery)
    \/ Pace

SpecSweep == InitSweep /\ [][NextSweep]_vars

(***************************************************************************)
(* Properties of a sweep near the quota limit                              *)
(***************************************************************************)
DeniedStep ==
    /\ (ev.op = "fetch" /\ ~ev.issued =>
            /\ pc' = "pace" /\ idx' = idx /\ timeframe' = timeframe
            /\ daily_requests' = daily_requests
            /\ ~ev'.called /\ message' = "none")
    /\ (pc = "pace" =>
            \/ pc' = "fetch" /\ idx' = idx + 1 /\ timeframe' = timeframe
            \/ pc' \in {"enter", "sleep60"} /\ idx = NumPairs - 1)

\* C19: the counter stays within 0..780; a fetch issues the remote call iff
\* the gate, after its day reset, saw fewer than 780 requests; a denied fetch
\* issues nothing, leaves the counter alone and returns None, the pair is
\* skipped without analysis, message or second attempt, and the sweep goes
\* on to the pacing delay and the next pair.
C19_QuotaGate ==
    /\ [](0 <= daily_requests /\ daily_requests <= 780)
    /\ [](ev.op = "fetch" => (ev.issued <=> ev.gate < 780))
    /\ [](ev.op = "fetch" /\ ~ev.issued =>
            /\ daily_requests = ev.dr0 /\ daily_requests = 780
            /\ data = NoneData /\ pc = "analyze")
    /\ [][DeniedStep]_vars

\* the first pair of a sweep denied at the limit, the second still to come
C19_Witness ==
    /\ ev.op = "fetch" /\ ~ev.issued /\ ev.outcome = "denied"
    /\ daily_requests = 780 /\ idx = 0 /\ pc = "analyze"

(***************************************************************************)
(* Properties of the monitoring loop                                       *)
(***************************************************************************)
HistoryFrameStep ==
    /\ (last_alerts' # last_alerts =>
          /\ ev'.called /\ ev'.ret
          /\ DOMAIN last_alerts' = DOMAIN last_alerts \cup {Key(ev'.sym, ev'.tf)}
          /\ \A k \in DOMAIN last_alerts :
                k # Key(ev'.sym, ev'.tf) => last_alerts'[k] = last_alerts[k])
    /\ (ev'.called /\ ~ev'.ret => last_alerts' = last_alerts)

\* C5: self.last_alerts changes only in a step in which should_send_alert
\* returned true, and then only in the entry of that call's key; a call that
\* returned false leaves it unchanged, and no entry is ever removed.
C5_HistoryFrame == [][HistoryFrameStep]_vars

\* an in-zone reading suppressed by the cooldown while two keys have entries
C5_Witness ==
    /\ ev.op = "analyze" /\ ev.called /\ ~ev.ret
    /\ ZoneOf(ev.rsi) # "NEUTRAL" /\ ev.gap > 0
    /\ Cardinality(DOMAIN last_alerts) >= 2

\* C8: a tick sends the "going to sleep" message iff it reads the quiet period
\* in effect and the previous tick did not, the "waking up" message iff it
\* reads it not in effect and the previous tick did, and nothing otherwise.
C8_OncePerEdge ==
    ev.op = "tick" =>
        /\ ev.sent \in {"none", "sleep", "wake"}
        /\ (ev.sent = "sleep" <=> (ev.quiet /\ ~ev.was0))
        /\ (ev.sent = "wake" <=> (~ev.quiet /\ ev.was0))

\* the tick that sees the quiet period end
C8_Witness ==
    ev.op = "tick" /\ ev.sent = "wake" /\ ~ev.quiet /\ ev.was0 /\ ~was_sleeping

\* C9 as stated: no fetch is issued, no analysis made and no alert delivered
\* at a moment of the quiet period, 02:00 to 05:00 IST.
C9_NoWorkInQuietPeriod ==
    /\ (ev.op = "fetch" /\ ev.issued => ISTHour(ev.at) \notin 2..4)
    /\ (ev.op = "analyze" => ISTHour(ev.at) \notin 2..4)
    /\ (ev.op = "deliver" => ISTHour(ev.at) \notin 2..4)

\* observer: the position of a step within the processing of one pair
StageRank(p) ==
    IF p = "fetch" THEN 0 ELSE IF p = "analyze" THEN 1
    ELSE IF p = "deliver" THEN 2 ELSE 3

SweepStep ==
    pc \in SweepPcs =>
        \/ /\ pc' \in SweepPcs /\ timeframe' = timeframe /\ idx' = idx
           /\ StageRank(pc') > StageRank(pc)
        \/ /\ pc' = "fetch" /\ timeframe' = timeframe /\ idx' = idx + 1
           /\ idx' < NumPairs
        \/ /\ pc' \notin SweepPcs /\ idx = NumPairs - 1

\* C10: inside a sweep every step is followed by a later step of the same
\* pair or by the fetch of the next configured pair of the same timeframe,
\* whatever failed, and the sweep is left only from its last pair; the pairs
\* are fetched in configured order.  Every step moves (idx, stage) strictly up
\* within its finite range, so the sweep ends after finitely many steps.
C10_SweepContinues ==
    /\ [][SweepStep]_vars
    /\ [](ev.op = "fetch" => ev.sym = forex_pairs[idx + 1])

\* the pair after one whose alert could not be formatted is fetched next
C10_Witness ==
    /\ ev.op = "analyze" /\ ev.outcome = "format_error"
    /\ pc = "fetch" /\ idx = 1

\* C13 as stated: every reading that should_send_alert approves is followed
\* by its delivery call, with a message naming the zone of the reading, and a
\* delivery call is made only for a reading just approved.
C13_DeliveryPerApproval ==
    /\ (ev.op = "analyze" /\ ev.called /\ ev.ret
            => pc = "deliver" /\ message = ZoneOf(ev.rsi))
    /\ (pc = "deliver" => ev.op = "analyze" /\ ev.called /\ ev.ret)
    /\ (ev.op = "deliver" => ev.sent \in {"OVERSOLD", "OVERBOUGHT"})

\* C16 as stated: no two sweeps of one timeframe start within the same clock
\* hour, i.e. within the same closing window.
C16_OncePerCandle ==
    (ev.op = "enter" /\ ev.ret) => ev.prev # ev.at \div 3600

\* C17 as stated: a tick that starts inside the closing window of an hour
\* divisible by 4, where "4h" is eligible, performs the "4h" sweep after the
\* "1h" sweep.
C17_EligibleSwept ==
    (ev.op = "enter" /\ ev.tf = "4h" /\ current_minute <= 2
        /\ current_hour % 4 = 0) => ev.ret

\* C18 as stated: inside a sweep the fetch of a pair other than the first
\* starts at least 2 s after the last step of the pair before it, whether
\* that pair was analysed, skipped or failed with an error.
C18_PacingBetweenPairs ==
    (pc = "fetch" /\ idx > 0) => now - ev.at >= 2

DeliveryStep ==
    /\ (pc' = "deliver" =>
            /\ ev'.op = "analyze" /\ ev'.called /\ ev'.ret
            /\ message' \in {"OVERSOLD", "OVERBOUGHT"})
    /\ (pc = "deliver" =>
            /\ ev'.op = "deliver" /\ ev'.sent = message
            /\ pc' = "pace" /\ idx' = idx /\ timeframe' = timeframe
            /\ message' = "none"
            /\ last_alerts' = last_alerts)
    /\ (ev'.op = "deliver" => pc = "deliver")
    /\ (pc = "pace" /\ ev.op = "deliver" =>
            \/ pc' = "fetch" /\ idx' = idx + 1 /\ timeframe' = timeframe
            \/ pc' \in {"enter", "sleep60"} /\ idx = NumPairs - 1)

LoopErrorStep ==
    ev'.op = "error" =>
        /\ pc' = "top"
        /\ now' = now + 300
        /\ last_alerts' = last_alerts
        /\ daily_requests' = daily_requests /\ last_reset' = last_reset
        /\ was_sleeping' = was_sleeping

\* C11: an exception that escapes a tick is caught by the loop: the step that
\* handles it pauses 300 s and returns to the head of the loop, where the next
\* tick starts, and leaves last_alerts, the quota state and was_sleeping as
\* they were; the loop is never left once it was entered.
C11_LoopSurvivesError ==
    /\ [][LoopErrorStep]_vars
    /\ [][pc # "test" => pc' # "exit"]_vars
    /\ [](ev.op = "error" => pc = "top")

\* an error caught after an alert was recorded and requests were counted,
\* with a further tick still to come
C11_Witness ==
    /\ ev.op = "error" /\ pc = "top" /\ ticks < MaxTicks
    /\ DOMAIN last_alerts # {} /\ daily_requests > 1

(***************************************************************************)
(* Properties of the quota governor                                        *)
(***************************************************************************)
\* C6 as stated: every fetch that passes the quota gate and issues the remote
\* call leaves the counter exactly one above its value at the gate, whatever
\* the outcome of the call.
C6_ChargedPerAttempt ==
    (ev.op = "get_forex_data" /\ ev.issued) => daily_requests = ev.gate + 1

\* C7: a call of the gate on a date not later than day_boundary leaves the
\* quota state alone and, with max_daily_requests spends recorded, returns
\* false; a call on a later date resets the counter to 0, moves day_boundary
\* to that date and returns true.
C7_QuotaDayReset ==
    ev.op = "can_make_request" =>
        /\ (ev.date <= ev.lr0 =>
                /\ daily_requests = ev.dr0 /\ last_reset = ev.lr0
                /\ (ev.dr0 = 780 => ~ev.ret))
        /\ (ev.date > ev.lr0 =>
                daily_requests = 0 /\ last_reset = ev.date /\ ev.ret)

\* the first gate call after the date advanced, with the quota used up
C7_Witness ==
    /\ ev.op = "can_make_request" /\ ev.dr0 = 780 /\ ev.date > ev.lr0
    /\ ev.ret /\ daily_requests = 0

====
